---- MODULE Spec2Model ----
(***************************************************************************)
(* A model of airflow/dags/polygonetl_airflow/build_parse_dag.py:          *)
(* validate_definition_files and build_parse_dag, followed by a scheduler  *)
(* that executes the graph build_parse_dag returned.                       *)
(*                                                                         *)
(* Strings are sequences of tokens.  A token is a run of characters that   *)
(* no operation of the program splits: ".json" and ".sql" are tokens, the  *)
(* letters "a", "A", "b", "B" are tokens whose case str.lower() changes,   *)
(* and each literal task identifier of the program is one token.           *)
(* An operator is the pair of its class and its task_id: build_parse_dag   *)
(* wires operator objects, so two operators of different classes that      *)
(* carry the same task_id are two nodes.                                   *)
(* None is the empty tuple and a present value x is the 1-tuple <<x>>.     *)
(***************************************************************************)
EXTENDS Integers, Sequences, FiniteSets, TLC

VARIABLES
    dataset_folder,             \* the argument: the path, split at "/"
    json_listing,               \* names glob found for *.json in the folder
    sql_listing,                \* names glob found for *.sql in the folder
    disk_table,                 \* file -> its `table` section, once read
    disk_parser,                \* file -> its parser.contract_address, once read
    pc,                         \* position in build_parse_dag
    todo,                       \* files the running for-loop has still to visit
    all_lowercase_table_names,  \* validate_definition_files' list
    validation_error,           \* None or the ValueError caught at line 71
    raised,                     \* None or the exception that left build_parse_dag
    tasks,                      \* operators constructed with dag=dag
    edges,                      \* <<upstream, downstream>> pairs set by >>
    all_parse_tasks,            \* dict task_id -> parse operator
    task_dependencies,          \* dict task_id -> list of referenced names
    succeeded,                  \* tasks the scheduler ran to success
    failed                      \* tasks the scheduler ran and that raised

vars == <<dataset_folder, json_listing, sql_listing, disk_table, disk_parser,
          pc, todo, all_lowercase_table_names, validation_error, raised,
          tasks, edges, all_parse_tasks, task_dependencies, succeeded, failed>>

(***************************************************************************)
(* Bounds of the model.                                                    *)
(***************************************************************************)
MaxJsonFiles == 4
MaxSqlFiles == 3
MaxRefs == 1

(***************************************************************************)
(* Python values.                                                          *)
(***************************************************************************)
None == << >>
Some(x) == <<x>>
Val(o) == o[1]

\* Python truthiness of an optional string or dict: None, "" and {} are falsy.
Falsy(o) == o = None \/ Val(o) = << >>

\* str.lower(), token by token
LowerToken(t) == CASE t = "A" -> "a" [] t = "B" -> "b" [] OTHER -> t
Lower(s) == [i \in 1..Len(s) |-> LowerToken(s[i])]

\* s.replace('.json', ''): every occurrence is removed, not only a suffix
ReplaceJson(s) == SelectSeq(s, LAMBDA t : t # ".json")

\* path.split('/')[-1]; also os.path.basename(path)
LastComponent(path) == path[Len(path)]

\* a root cut at the first dot, as base_name.split('.')[0] would
SplitExtRoot_FirstDot(s) == <<s[1]>>

\* os.path.splitext(base_name)[0]: only the last extension is removed
SplitExtRoot(s) ==
    IF Len(s) > 1 /\ s[Len(s)] \in {".json", ".sql"} THEN SubSeq(s, 1, Len(s) - 1) ELSE s

(***************************************************************************)
(* The inputs: the folder argument, the files in it and what they hold.    *)
(***************************************************************************)
FolderName == <<"mydataset">>
OtherName == <<"other">>

\* the folder paths a caller passes: no trailing "/"
DatasetFolders == { <<<<"dags">>, FolderName>>, <<OtherName>> }

JsonFileNames ==
    { <<"a", ".json">>, <<"A", ".json">>, <<"a", ".json", ".json">>,
      <<"b", ".json">>, <<"B", ".json">>, <<"parse_all_checkpoint", ".json">> }

SqlFileNames == { <<"v", ".sql">>, <<"w", ".sql">>, <<"v", ".x", ".sql">> }

TableNames ==
    { <<"a">>, <<"A">>, <<"b">>, <<"B">>, <<"a", ".json">>, <<"parse_all_checkpoint">> }

\* the `table` section of a definition: absent, or a dict whose two keys may be absent
TableSections ==
    { None } \cup
    { Some([dataset_name |-> d, table_name |-> t]) :
        d \in { None, Some(<< >>), Some(FolderName), Some(OtherName) },
        t \in { None, Some(<< >>) } \cup { Some(n) : n \in TableNames } }

\* table_definition.get('table') is falsy when the key is absent or the dict is empty
EmptyDict == [dataset_name |-> None, table_name |-> None]
TableFalsy(table) == table = None \/ Val(table) = EmptyDict

RefNames == { <<"a">>, <<"b">> }

\* a piece of a contract_address text: a literal address, or a tag ref('name')
Literal == [tag |-> "literal", name |-> <<"0x">>]
RefTag(name) == [tag |-> "ref", name |-> name]

RECURSIVE SeqsUpTo(_, _)
\* the sequences over S of length 0..n
SeqsUpTo(S, n) ==
    IF n = 0 THEN { << >> }
    ELSE LET shorter == SeqsUpTo(S, n - 1)
         IN  shorter \cup { Append(s, x) : s \in shorter, x \in S }

\* parser.contract_address: null, a literal address, or a text with reference tags
ContractAddresses ==
    { None, Some(<<Literal>>) } \cup
    { Some(text) : text \in SeqsUpTo({ RefTag(n) : n \in RefNames }, MaxRefs) \ { << >> } }

\* ref_regex.findall(contract_address): the names inside the tags, in order of occurrence
RefRegexFindall(text) ==
    LET tags == SelectSeq(text, LAMBDA piece : piece.tag = "ref")
    IN  [i \in 1..Len(tags) |-> tags[i].name]

(***************************************************************************)
(* Exceptions: a ValueError is its message, kept as the format and the     *)
(* values formatted into it.                                               *)
(***************************************************************************)
ValueError(kind, args) == [kind |-> kind, args |-> args]

(***************************************************************************)
(* validate_definition_files                                               *)
(***************************************************************************)
dataset_folder_name == LastComponent(dataset_folder)

\* the checks of one loop iteration: None, or the ValueError it raises
FileError(json_file, table) ==
    LET file_name == ReplaceJson(json_file)
    IN  IF TableFalsy(table)
        THEN Some(ValueError("table is empty in file", <<json_file>>))
        ELSE LET dataset_name == Val(table).dataset_name
                 table_name == Val(table).table_name
             IN  IF Falsy(dataset_name)
                 THEN Some(ValueError("dataset_name is empty in file", <<json_file>>))
                 ELSE IF dataset_folder_name # Val(dataset_name)
                 THEN Some(ValueError("dataset_name is not equal to dataset_folder_name",
                                      <<Val(dataset_name), dataset_folder_name>>))
                 ELSE IF Falsy(table_name)
                 THEN Some(ValueError("table_name is empty in file", <<json_file>>))
                 ELSE IF file_name # Val(table_name)
                 THEN Some(ValueError("file_name doest match the table_name",
                                      <<file_name, Val(table_name)>>))
                 ELSE None

Count(names, name) == Cardinality({ i \in 1..Len(names) : names[i] = name })

\* a validator that stops at the first duplicated name
NonUniqueTableNames_FirstOnly(names) ==
    LET dup == { i \in 1..Len(names) : Count(names, names[i]) > 1 }
    IN  IF dup = {} THEN << >>
        ELSE << names[CHOOSE i \in dup : \A j \in dup : i <= j] >>

\* the keys of table_name_counts whose count exceeds 1, in insertion order
NonUniqueTableNames(names) ==
    LET firsts == SelectSeq([i \in 1..Len(names) |-> <<i, names[i]>>],
                            LAMBDA p : \A j \in 1..(p[1] - 1) : names[j] # p[2])
        keys == [i \in 1..Len(firsts) |-> firsts[i][2]]
    IN  SelectSeq(keys, LAMBDA name : Count(names, name) > 1)

(***************************************************************************)
(* Operators (tasks) and the literal task identifiers of build_parse_dag.  *)
(***************************************************************************)
Operator(kind, task_id) == [kind |-> kind, task_id |-> task_id]

validation_error_operator == Operator("validation_error", <<"validation_error">>)
wait_for_ethereum_load_dag_task == Operator("sensor", <<"wait_for_polygon_partition_dag">>)
checkpoint_task == Operator("checkpoint", <<"parse_all_checkpoint">>)
ViewTaskId(view_name) == <<"create_view_">> \o view_name

\* d[k] = v on a Python dict held as a function
DictSet(d, k, v) == [x \in DOMAIN d \cup {k} |-> IF x = k THEN v ELSE d[x]]
EmptyDictOfTasks == [x \in {} |-> x]

(***************************************************************************)
(* The state after construction: the call's argument and the folder.       *)
(***************************************************************************)
Init ==
    /\ dataset_folder \in DatasetFolders
    /\ json_listing = {}
    /\ sql_listing = {}
    /\ disk_table = EmptyDictOfTasks
    /\ disk_parser = EmptyDictOfTasks
    /\ pc = "start"
    /\ todo = {}
    /\ all_lowercase_table_names = << >>
    /\ validation_error = None
    /\ raised = None
    /\ tasks = {}
    /\ edges = {}
    /\ all_parse_tasks = EmptyDictOfTasks
    /\ task_dependencies = EmptyDictOfTasks
    /\ succeeded = {}
    /\ failed = {}

graph_vars == <<tasks, edges, all_parse_tasks, task_dependencies>>
run_vars == <<succeeded, failed>>
input_vars == <<dataset_folder, json_listing, sql_listing>>

\* get_list_of_files(dataset_folder, filter): the glob's result, in no order
JsonListings == { S \in SUBSET JsonFileNames : Cardinality(S) <= MaxJsonFiles }
SqlListings == { S \in SUBSET SqlFileNames : Cardinality(S) <= MaxSqlFiles }

\* build_parse_dag enters the try block and calls validate_definition_files,
\* which lists the folder's *.json files
CallValidate(json_files) ==
    /\ pc = "start"
    /\ json_listing' = json_files
    /\ todo' = json_files
    /\ pc' = "validate_loop"
    /\ UNCHANGED <<dataset_folder, sql_listing, disk_table, disk_parser,
                   all_lowercase_table_names, validation_error, raised, graph_vars,
                   run_vars>>

\* one iteration of validate_definition_files' loop; glob's order is arbitrary
ValidateFile(json_file, table) ==
    /\ pc = "validate_loop"
    /\ json_file \in todo
    /\ disk_table' = DictSet(disk_table, json_file, table)
    /\ LET error == FileError(json_file, table)
       IN  IF error # None
           THEN /\ validation_error' = error
                /\ pc' = "validated"
                /\ todo' = {}
                /\ all_lowercase_table_names' = << >>
           ELSE /\ all_lowercase_table_names' =
                       Append(all_lowercase_table_names, Lower(Val(Val(table).table_name)))
                /\ todo' = todo \ {json_file}
                /\ UNCHANGED <<validation_error, pc>>
    /\ UNCHANGED <<input_vars, disk_parser, raised, graph_vars, run_vars>>

\* after the loop: count the lowercased names and raise when one is not unique
ValidateUnique ==
    /\ pc = "validate_loop"
    /\ todo = {}
    /\ LET non_unique_table_names == NonUniqueTableNames(all_lowercase_table_names)
       IN  validation_error' =
               IF Len(non_unique_table_names) > 0
               THEN Some(ValueError("The following table names are not unique",
                                    non_unique_table_names))
               ELSE None
    /\ all_lowercase_table_names' = << >>
    /\ pc' = "validated"
    /\ UNCHANGED <<input_vars, disk_table, disk_parser, todo, raised, graph_vars, run_vars>>

(***************************************************************************)
(* build_parse_dag after validation.                                       *)
(***************************************************************************)
\* the relation set the wrong way round: a << b
SetDownstream_Reversed(es, a, b) == es \cup { <<b, a>> }

\* a >> b
SetDownstream(es, a, b) == es \cup { <<a, b>> }

\* the validation error replaces the graph by one task that re-raises it
CreateValidationErrorOperator ==
    /\ pc = "validated"
    /\ validation_error # None
    /\ tasks' = tasks \cup { validation_error_operator }
    /\ pc' = "returned"
    /\ UNCHANGED <<input_vars, disk_table, disk_parser, todo, all_lowercase_table_names,
                   validation_error, raised, edges, all_parse_tasks, task_dependencies,
                   run_vars>>

\* the sensor on the partition dag's `done` task, then the second glob of *.json
CreateSensor ==
    /\ pc = "validated"
    /\ validation_error = None
    /\ tasks' = tasks \cup { wait_for_ethereum_load_dag_task }
    /\ todo' = json_listing
    /\ pc' = "parse_loop"
    /\ UNCHANGED <<input_vars, disk_table, disk_parser, all_lowercase_table_names,
                   validation_error, raised, edges, all_parse_tasks, task_dependencies,
                   run_vars>>

\* a create_parse_task that never looks for reference tags
create_parse_task_NoDependencies(table, contract_address) ==
    <<Operator("parse", Val(Val(table).table_name)), << >>>>

\* create_parse_task: the operator named after the table, and the referenced names
create_parse_task(table, contract_address) ==
    LET table_name == Val(Val(table).table_name)
        parsing_operator == Operator("parse", table_name)
        ref_dependencies ==
            IF contract_address # None THEN RefRegexFindall(Val(contract_address))
            ELSE << >>
    IN  <<parsing_operator, ref_dependencies>>

\* one iteration of the loop over json_files
CreateParseTask(json_file, contract_address) ==
    /\ pc = "parse_loop"
    /\ json_file \in todo
    /\ disk_parser' = DictSet(disk_parser, json_file, contract_address)
    /\ LET created == create_parse_task(disk_table[json_file], contract_address)
           task == created[1]
           dependencies == created[2]
       IN  /\ tasks' = tasks \cup { task }
           /\ edges' = SetDownstream(edges, wait_for_ethereum_load_dag_task, task)
           /\ all_parse_tasks' = DictSet(all_parse_tasks, task.task_id, task)
           /\ task_dependencies' = DictSet(task_dependencies, task.task_id, dependencies)
    /\ todo' = todo \ {json_file}
    /\ UNCHANGED <<input_vars, disk_table, pc, all_lowercase_table_names,
                   validation_error, raised, run_vars>>

\* the checkpoint is created once every parse task exists
CreateCheckpoint ==
    /\ pc = "parse_loop"
    /\ todo = {}
    /\ tasks' = tasks \cup { checkpoint_task }
    /\ todo' = DOMAIN task_dependencies
    /\ pc' = "wire"
    /\ UNCHANGED <<input_vars, disk_table, disk_parser, all_lowercase_table_names,
                   validation_error, raised, edges, all_parse_tasks, task_dependencies,
                   run_vars>>

\* the positions of `dependencies` whose name is no key of all_parse_tasks
Unresolved(dependencies) ==
    { i \in 1..Len(dependencies) : dependencies[i] \notin DOMAIN all_parse_tasks }

\* a wiring loop that points each dependency edge from the dependent task
WiredEdges_Reversed(task, dependencies, n, reaches_checkpoint) ==
    { <<all_parse_tasks[task], all_parse_tasks[dependencies[i]]>> : i \in 1..n }
    \cup (IF reaches_checkpoint THEN { <<all_parse_tasks[task], checkpoint_task>> } ELSE {})

\* a wiring loop that leaves out the edge into the checkpoint
WiredEdges_NoCheckpoint(task, dependencies, n, reaches_checkpoint) ==
    { <<all_parse_tasks[dependencies[i]], all_parse_tasks[task]>> : i \in 1..n }

\* the edges one iteration of the wiring loop adds for `task` when the inner
\* loop runs over the first n dependencies and the checkpoint edge is reached or not
WiredEdges(task, dependencies, n, reaches_checkpoint) ==
    { <<all_parse_tasks[dependencies[i]], all_parse_tasks[task]>> : i \in 1..n }
    \cup (IF reaches_checkpoint THEN { <<all_parse_tasks[task], checkpoint_task>> } ELSE {})

\* one iteration of the loop over task_dependencies.items()
WireTask(task) ==
    /\ pc = "wire"
    /\ task \in todo
    /\ LET dependencies == task_dependencies[task]
           missing == Unresolved(dependencies)
       IN  IF missing # {}
           THEN LET first == CHOOSE i \in missing : \A j \in missing : i <= j
                IN  /\ raised' = Some(ValueError(
                           "Table is not found in the the dataset. Check your ref() in contract_address field.",
                           <<dependencies[first]>>))
                    /\ edges' = edges \cup WiredEdges(task, dependencies, first - 1, FALSE)
                    /\ pc' = "raised"
                    /\ todo' = {}
           ELSE /\ edges' = edges \cup WiredEdges(task, dependencies, Len(dependencies), TRUE)
                /\ todo' = todo \ {task}
                /\ UNCHANGED <<raised, pc>>
    /\ UNCHANGED <<input_vars, disk_table, disk_parser, all_lowercase_table_names,
                   validation_error, tasks, all_parse_tasks, task_dependencies, run_vars>>

\* after the wiring loop: the glob of *.sql
ListSqlFiles(sql_files) ==
    /\ pc = "wire"
    /\ todo = {}
    /\ sql_listing' = sql_files
    /\ todo' = sql_files
    /\ pc' = "views"
    /\ UNCHANGED <<dataset_folder, json_listing, disk_table, disk_parser, all_lowercase_table_names,
                   validation_error, raised, graph_vars, run_vars>>

\* create_add_view_task: the operator named create_view_<view_name>
create_add_view_task(view_name) == Operator("view", ViewTaskId(view_name))

\* one iteration of the loop over sql_files
CreateViewTask(sql_file) ==
    /\ pc = "views"
    /\ sql_file \in todo
    /\ LET base_name == sql_file
           view_name == SplitExtRoot(base_name)
           create_view_task == create_add_view_task(view_name)
       IN  /\ tasks' = tasks \cup { create_view_task }
           /\ edges' = SetDownstream(edges, checkpoint_task, create_view_task)
    /\ todo' = todo \ {sql_file}
    /\ UNCHANGED <<input_vars, disk_table, disk_parser, pc, all_lowercase_table_names,
                   validation_error, raised, all_parse_tasks, task_dependencies, run_vars>>

\* return dag
ReturnDag ==
    /\ pc = "views"
    /\ todo = {}
    /\ pc' = "returned"
    /\ UNCHANGED <<input_vars, disk_table, disk_parser, todo, all_lowercase_table_names,
                   validation_error, raised, graph_vars, run_vars>>

(***************************************************************************)
(* The scheduler: it starts a task of the returned graph once every direct *)
(* upstream task has succeeded.  A task's callable returns or raises; the  *)
(* callable of the validation_error task always raises.                    *)
(***************************************************************************)
Upstream(t) == { u \in tasks : <<u, t>> \in edges }

\* raise_validation_error re-raises; every other callable may succeed
CanSucceed(t) == t.kind # "validation_error"

RunTask(t, ok) ==
    /\ pc = "returned"
    /\ t \in tasks \ (succeeded \cup failed)
    /\ Upstream(t) \subseteq succeeded
    /\ IF ok /\ CanSucceed(t)
       THEN succeeded' = succeeded \cup {t} /\ UNCHANGED failed
       ELSE failed' = failed \cup {t} /\ UNCHANGED succeeded
    /\ UNCHANGED <<input_vars, disk_table, disk_parser, pc, todo,
                   all_lowercase_table_names, validation_error, raised, graph_vars>>

Next ==
    \/ \E json_files \in JsonListings : CallValidate(json_files)
    \/ \E json_file \in JsonFileNames, table \in TableSections :
          ValidateFile(json_file, table)
    \/ ValidateUnique
    \/ CreateValidationErrorOperator
    \/ CreateSensor
    \/ \E json_file \in JsonFileNames, contract_address \in ContractAddresses :
          CreateParseTask(json_file, contract_address)
    \/ CreateCheckpoint
    \/ \E task \in TableNames : WireTask(task)
    \/ \E sql_files \in SqlListings : ListSqlFiles(sql_files)
    \/ \E sql_file \in SqlFileNames : CreateViewTask(sql_file)
    \/ ReturnDag
    \/ \E t \in tasks, ok \in BOOLEAN : RunTask(t, ok)

Spec == Init /\ [][Next]_vars

(***************************************************************************)
(* Vocabulary of the properties, stated on the inputs: the files read from *)
(* the folder and what they declare.                                       *)
(***************************************************************************)
ReadFiles == DOMAIN disk_table
TableOf(f) == Val(disk_table[f])
TableNameOf(f) == Val(TableOf(f).table_name)

\* the file's base name without its extension, and the name of the folder
BaseNameOf(f) == SubSeq(f, 1, Len(f) - 1)
NameOfFolder == dataset_folder[Len(dataset_folder)]

Lacks(o) == o = None \/ Val(o) = << >>

\* the per-file naming rules of the validator's contract
BreaksFileRule(f) ==
    \/ disk_table[f] = None
    \/ Lacks(TableOf(f).dataset_name)
    \/ Val(TableOf(f).dataset_name) # NameOfFolder
    \/ Lacks(TableOf(f).table_name)
    \/ BaseNameOf(f) # TableNameOf(f)

\* two definitions share a table_name up to case
SharesName(f, g) ==
    /\ f # g
    /\ ~BreaksFileRule(f) /\ ~BreaksFileRule(g)
    /\ Lower(TableNameOf(f)) = Lower(TableNameOf(g))

BreaksNamingRules ==
    \/ \E f \in ReadFiles : BreaksFileRule(f)
    \/ \E f, g \in ReadFiles : SharesName(f, g)

Validated == pc = "validated"
Rejected == validation_error # None
Built == pc = "returned" /\ validation_error = None

\* C1: validate_definition_files raises a ValueError exactly when a definition
\* lacks its table section, lacks dataset_name, declares a dataset_name other than
\* the folder's name, lacks table_name, sits in a file whose base name differs
\* from its table_name, or shares its table_name up to case with another one;
\* and a dataset_name mismatch is reported as such.
C1_RejectsExactlyByNamingRules ==
    Validated =>
        /\ Rejected <=> BreaksNamingRules
        /\ (~Rejected => ReadFiles = json_listing)

(***************************************************************************)
(* C2                                                                      *)
(***************************************************************************)
PassesFileRules ==
    /\ ReadFiles = json_listing
    /\ \A f \in ReadFiles : FileError(f, disk_table[f]) = None

\* the definitions whose table_name another definition has up to case
Offending == { f \in ReadFiles : \E g \in ReadFiles \ {f} :
                 Lower(TableNameOf(f)) = Lower(TableNameOf(g)) }
DuplicatedNames == { Lower(TableNameOf(f)) : f \in Offending }

IsNotUniqueError(e) ==
    e # None /\ Val(e).kind = "The following table names are not unique"
Reported(e) == { Val(e).args[i] : i \in 1..Len(Val(e).args) }

\* C2 as claimed: when the per-file rules pass and table names collide up to case,
\* the one error message names every offending table, both of a colliding pair.
C2_NamesBothOffendingTables ==
    (Validated /\ PassesFileRules /\ Offending # {}) =>
        /\ IsNotUniqueError(validation_error)
        /\ \A f \in Offending : TableNameOf(f) \in Reported(validation_error)

\* C2 as amended: when the per-file rules pass and table names collide up to case,
\* validation fails with one message that lists every duplicated name, each once
\* and in lower case, and no other name.
C2_ReportsEveryDuplicatedLowercaseName ==
    (Validated /\ PassesFileRules /\ Offending # {}) =>
        /\ IsNotUniqueError(validation_error)
        /\ Reported(validation_error) = DuplicatedNames
        /\ Len(Val(validation_error).args) = Cardinality(DuplicatedNames)

\* two different names are each duplicated and both are in the message
C2_Witness ==
    /\ Validated /\ PassesFileRules
    /\ Cardinality(DuplicatedNames) = 2
    /\ IsNotUniqueError(validation_error)
    /\ Len(Val(validation_error).args) = 2

(***************************************************************************)
(* Vocabulary of the graph properties.                                     *)
(***************************************************************************)
ParseTasks == { t \in tasks : t.kind = "parse" }
ViewTasks == { t \in tasks : t.kind = "view" }
Started == succeeded \cup failed

\* what the definitions of the folder declare, once build_parse_dag has read them
ParseTaskOf(name) == Operator("parse", name)
DeclaredTables == { TableNameOf(f) : f \in json_listing }
RefsOf(f) ==
    LET text == disk_parser[f]
    IN  IF text = None THEN {}
        ELSE { Val(text)[i].name : i \in { j \in 1..Len(Val(text)) : Val(text)[j].tag = "ref" } }
DefinitionsRead == DOMAIN disk_parser = json_listing
MissingRefs == UNION { RefsOf(f) : f \in DOMAIN disk_parser } \ DeclaredTables

IsTableNotFoundError(e) ==
    /\ e # None
    /\ Val(e).kind =
         "Table is not found in the the dataset. Check your ref() in contract_address field."

\* C3: every build-time error of a dataset, a validation error or an unresolved
\* reference, is caught: build_parse_dag never raises to its caller and returns a
\* graph that holds only the placeholder task, which fails when it is executed.
C3_BuildErrorsAreIsolated ==
    /\ pc # "raised"
    /\ (pc = "returned" /\ Rejected) =>
          /\ tasks = { validation_error_operator }
          /\ edges = {}
          /\ validation_error_operator \notin succeeded

\* C4: a reference to a table that no definition of the folder declares ends the
\* build with the ValueError that names a missing table, so the build completes
\* only when every referenced name is the id of a parse task of the graph.
C4_UnresolvedReferenceFailsBuild ==
    /\ (pc = "raised") =>
          /\ IsTableNotFoundError(raised)
          /\ Len(Val(raised).args) = 1
          /\ Val(raised).args[1] \in MissingRefs
    /\ (pc \in {"views", "returned"} /\ ~Rejected) =>
          /\ DefinitionsRead
          /\ MissingRefs = {}
          /\ \A f \in json_listing : \A a \in RefsOf(f) : ParseTaskOf(a) \in tasks

\* the wiring loop met a reference to an undeclared table and raised
C4_Witness ==
    /\ pc = "raised"
    /\ DefinitionsRead
    /\ MissingRefs # {}
    /\ ParseTasks # {}

\* C5: in a completed graph every referenced table's task has a direct edge to the
\* referring task and every parse task has a direct edge to the one checkpoint;
\* so a task starts only after the tasks it refers to succeeded, and the checkpoint
\* only after every parse task succeeded.
C5_DependencyAndCheckpointEdges ==
    Built =>
        /\ checkpoint_task \in tasks
        /\ Cardinality({ t \in tasks : t.kind = "checkpoint" }) = 1
        /\ \A f \in json_listing :
              LET b == ParseTaskOf(TableNameOf(f))
              IN  /\ b \in tasks
                  /\ <<b, checkpoint_task>> \in edges
                  /\ \A a \in RefsOf(f) : <<ParseTaskOf(a), b>> \in edges
                  /\ b \in Started => \A a \in RefsOf(f) : ParseTaskOf(a) \in succeeded
        /\ checkpoint_task \in Started => ParseTasks \subseteq succeeded

\* A has no reference, B refers to A, and both ran before the checkpoint ran
C5_Witness ==
    /\ Built
    /\ \E f, g \in json_listing :
          /\ f # g
          /\ RefsOf(f) = {}
          /\ RefsOf(g) = { TableNameOf(f) }
          /\ <<ParseTaskOf(TableNameOf(f)), ParseTaskOf(TableNameOf(g))>> \in edges
    /\ checkpoint_task \in succeeded

\* C6: a completed graph has exactly one view task per SQL file, named after the
\* file's base name without extension; the checkpoint is the only upstream of each
\* view task, so no view, parse task or sensor has an edge to a view task.
C6_ViewsDependOnlyOnCheckpoint ==
    Built =>
        /\ ViewTasks = { Operator("view", <<"create_view_">> \o BaseNameOf(f)) : f \in sql_listing }
        /\ Cardinality(ViewTasks) = Cardinality(sql_listing)
        /\ \A v \in ViewTasks : Upstream(v) = { checkpoint_task }
        /\ \A e \in edges : e[2] \in ViewTasks => e[1].kind = "checkpoint"

\* three SQL files gave three view tasks beside parse tasks
C6_Witness ==
    /\ Built
    /\ Cardinality(sql_listing) = 3
    /\ Cardinality(ViewTasks) = 3
    /\ ParseTasks # {}

\* C7: under a scheduler that starts a task only after all its direct upstream
\* tasks succeeded, a view task starts only after every parse task of the graph
\* has succeeded.
C7_ViewsStartAfterAllParsing ==
    \A v \in ViewTasks : v \in Started => ParseTasks \subseteq succeeded

\* a view ran in a graph with two parse tasks
C7_Witness ==
    /\ Built
    /\ Cardinality(ParseTasks) >= 2
    /\ \E v \in ViewTasks : v \in succeeded

RECURSIVE Closure(_)
\* the tasks reachable from the set S along the edges, S included
Closure(S) ==
    LET more == S \cup { d \in tasks : \E u \in S : <<u, d>> \in edges }
    IN  IF more = S THEN S ELSE Closure(more)
Descendants(t) == Closure({ d \in tasks : <<t, d>> \in edges })

\* C8: the graph built from a validated folder whose references all resolve is
\* acyclic: no task is reachable from itself along the edges.
C8_GraphIsAcyclic ==
    Built => \A t \in tasks : t \notin Descendants(t)

\* C9 as claimed: in a completed graph the sensor is a direct upstream of every
\* parse task and has no upstream itself, and no parse task, checkpoint or view
\* task starts before the sensor has succeeded.
C9_SensorGatesEveryTask ==
    Built =>
        /\ wait_for_ethereum_load_dag_task \in tasks
        /\ Upstream(wait_for_ethereum_load_dag_task) = {}
        /\ \A p \in ParseTasks : <<wait_for_ethereum_load_dag_task, p>> \in edges
        /\ \A t \in Started \ { wait_for_ethereum_load_dag_task } :
              wait_for_ethereum_load_dag_task \in succeeded

\* C9 as amended: in a completed graph the sensor is a direct upstream of every
\* parse task and has no upstream itself; no parse task starts before the sensor
\* has succeeded, and when the folder holds at least one definition neither does
\* the checkpoint nor any view task.
C9_SensorGatesParsing ==
    Built =>
        /\ wait_for_ethereum_load_dag_task \in tasks
        /\ Upstream(wait_for_ethereum_load_dag_task) = {}
        /\ \A p \in ParseTasks : <<wait_for_ethereum_load_dag_task, p>> \in edges
        /\ \A p \in ParseTasks \cap Started : wait_for_ethereum_load_dag_task \in succeeded
        /\ json_listing # {} =>
              \A t \in Started \ { wait_for_ethereum_load_dag_task } :
                  wait_for_ethereum_load_dag_task \in succeeded

\* the sensor succeeded and then a parse task, the checkpoint and a view ran
C9_Witness ==
    /\ Built
    /\ wait_for_ethereum_load_dag_task \in succeeded
    /\ ParseTasks # {} /\ ParseTasks \subseteq Started
    /\ checkpoint_task \in Started
    /\ ViewTasks \cap Started # {}

\* C10: a completed graph has exactly one parse task per definition, keyed by its
\* table name, and the task identifiers of the sensor, the parse tasks, the
\* checkpoint and the view tasks are pairwise distinct.
C10_TaskIdsAreDistinct ==
    Built =>
        /\ ParseTasks = { ParseTaskOf(TableNameOf(f)) : f \in json_listing }
        /\ Cardinality(ParseTasks) = Cardinality(json_listing)
        /\ DOMAIN all_parse_tasks = { t.task_id : t \in ParseTasks }
        /\ \A t, u \in tasks : t # u => t.task_id # u.task_id

====
